---- MODULE Spec2Model ----
(***************************************************************************)
(* The Bikram Sambat (BS) date engine of the Nepali date picker            *)
(* (lib/nepali-date): the calendar table, the validator, the two           *)
(* converters, the formatter and the day-count lookup.                     *)
(*                                                                         *)
(* A JavaScript Date is an instant.  Instants are counted here in minutes  *)
(* from the reference instant new Date(1943, 3, 14), which is midnight of  *)
(* 14 April 1943 on the wall clock of the host's time zone.  A Gregorian   *)
(* calendar day is named by its index from 14 April 1943 (day 0), so       *)
(* 13 April 1943 is day -1.                                                *)
(***************************************************************************)
EXTENDS Integers, Sequences, FiniteSets, TLC

(* ------------------------------ bounds -------------------------------- *)

\* How far the enumerated inputs reach beyond the supported values: BS
\* years, months and days outside the table, and Gregorian days before
\* the reference day and after the last supported day.
Margin == 2

\* The conversions are run on the dates within Edge days of the first day
\* of every BS month of the table (so on the last days of the month before
\* it and on its first days).
Edge == 1

\* How many months away from the month of today the calendar is navigated.
NavReach == 1

\* The key presses that move the focus on one mounted calendar.
MaxKeys == 1

(* --------------------------- calendar table --------------------------- *)

CalendarRows == <<
    <<30, 32, 31, 32, 31, 30, 30, 30, 29, 30, 29, 31>>,  \* 2000
    <<31, 31, 32, 31, 31, 31, 30, 29, 30, 29, 30, 30>>,  \* 2001
    <<31, 31, 32, 32, 31, 30, 30, 29, 30, 29, 30, 30>>,  \* 2002
    <<31, 32, 31, 32, 31, 30, 30, 30, 29, 29, 30, 31>>,  \* 2003
    <<30, 32, 31, 32, 31, 30, 30, 30, 29, 30, 29, 31>>,  \* 2004
    <<31, 31, 32, 31, 31, 31, 30, 29, 30, 29, 30, 30>>,  \* 2005
    <<31, 31, 32, 32, 31, 30, 30, 29, 30, 29, 30, 30>>,  \* 2006
    <<31, 32, 31, 32, 31, 30, 30, 30, 29, 29, 30, 31>>,  \* 2007
    <<31, 31, 31, 32, 31, 31, 29, 30, 30, 29, 29, 31>>,  \* 2008
    <<31, 31, 32, 31, 31, 31, 30, 29, 30, 29, 30, 30>>,  \* 2009
    <<31, 31, 32, 32, 31, 30, 30, 29, 30, 29, 30, 30>>,  \* 2010
    <<31, 32, 31, 32, 31, 30, 30, 30, 29, 29, 30, 31>>,  \* 2011
    <<31, 31, 31, 32, 31, 31, 29, 30, 30, 29, 30, 30>>,  \* 2012
    <<31, 31, 32, 31, 31, 31, 30, 29, 30, 29, 30, 30>>,  \* 2013
    <<31, 31, 32, 32, 31, 30, 30, 29, 30, 29, 30, 30>>,  \* 2014
    <<31, 32, 31, 32, 31, 30, 30, 30, 29, 29, 30, 31>>,  \* 2015
    <<31, 31, 31, 32, 31, 31, 29, 30, 30, 29, 30, 30>>,  \* 2016
    <<31, 31, 32, 31, 31, 31, 30, 29, 30, 29, 30, 30>>,  \* 2017
    <<31, 32, 31, 32, 31, 30, 30, 29, 30, 29, 30, 30>>,  \* 2018
    <<31, 32, 31, 32, 31, 30, 30, 30, 29, 30, 29, 31>>,  \* 2019
    <<31, 31, 31, 32, 31, 31, 30, 29, 30, 29, 30, 30>>,  \* 2020
    <<31, 31, 32, 31, 31, 31, 30, 29, 30, 29, 30, 30>>,  \* 2021
    <<31, 32, 31, 32, 31, 30, 30, 30, 29, 29, 30, 30>>,  \* 2022
    <<31, 32, 31, 32, 31, 30, 30, 30, 29, 30, 29, 31>>,  \* 2023
    <<31, 31, 31, 32, 31, 31, 30, 29, 30, 29, 30, 30>>,  \* 2024
    <<31, 31, 32, 31, 31, 31, 30, 29, 30, 29, 30, 30>>,  \* 2025
    <<31, 32, 31, 32, 31, 30, 30, 30, 29, 29, 30, 31>>,  \* 2026
    <<30, 32, 31, 32, 31, 30, 30, 30, 29, 30, 29, 31>>,  \* 2027
    <<31, 31, 32, 31, 31, 31, 30, 29, 30, 29, 30, 30>>,  \* 2028
    <<31, 31, 32, 31, 32, 30, 30, 29, 30, 29, 30, 30>>,  \* 2029
    <<31, 32, 31, 32, 31, 30, 30, 30, 29, 29, 30, 31>>,  \* 2030
    <<30, 32, 31, 32, 31, 30, 30, 30, 29, 30, 29, 31>>,  \* 2031
    <<31, 31, 32, 31, 31, 31, 30, 29, 30, 29, 30, 30>>,  \* 2032
    <<31, 31, 32, 32, 31, 30, 30, 29, 30, 29, 30, 30>>,  \* 2033
    <<31, 32, 31, 32, 31, 30, 30, 30, 29, 29, 30, 31>>,  \* 2034
    <<30, 32, 31, 32, 31, 31, 29, 30, 30, 29, 29, 31>>,  \* 2035
    <<31, 31, 32, 31, 31, 31, 30, 30, 29, 30, 30, 30>>,  \* 2036
    <<30, 31, 32, 32, 31, 30, 30, 30, 29, 30, 30, 30>>,  \* 2037
    <<30, 32, 31, 32, 31, 30, 30, 30, 29, 30, 30, 30>>,  \* 2038
    <<30, 31, 32, 32, 31, 30, 30, 30, 29, 30, 30, 30>>,  \* 2039
    <<30, 32, 31, 32, 31, 30, 30, 30, 29, 30, 30, 30>>,  \* 2040
    <<31, 31, 32, 31, 31, 31, 30, 30, 29, 30, 30, 30>>,  \* 2041
    <<30, 31, 32, 32, 31, 30, 30, 30, 29, 30, 30, 30>>,  \* 2042
    <<31, 32, 31, 32, 31, 30, 30, 30, 29, 30, 30, 30>>,  \* 2043
    <<31, 31, 32, 31, 31, 31, 30, 29, 30, 29, 30, 30>>,  \* 2044
    <<31, 31, 32, 31, 31, 31, 30, 29, 29, 30, 30, 30>>,  \* 2045
    <<31, 32, 31, 32, 31, 30, 30, 30, 29, 30, 30, 30>>,  \* 2046
    <<31, 31, 31, 32, 31, 31, 29, 30, 29, 30, 30, 30>>,  \* 2047
    <<31, 31, 32, 31, 31, 31, 30, 30, 29, 30, 30, 30>>,  \* 2048
    <<31, 32, 31, 32, 31, 30, 30, 30, 29, 30, 30, 30>>,  \* 2049
    <<31, 32, 31, 32, 31, 30, 30, 30, 29, 30, 30, 30>>,  \* 2050
    <<31, 31, 31, 32, 31, 31, 30, 29, 30, 29, 30, 30>>,  \* 2051
    <<31, 31, 32, 31, 31, 31, 30, 30, 29, 30, 30, 30>>,  \* 2052
    <<31, 32, 31, 32, 31, 30, 30, 30, 29, 30, 30, 30>>,  \* 2053
    <<31, 32, 31, 32, 31, 30, 30, 30, 29, 30, 30, 30>>,  \* 2054
    <<31, 31, 32, 31, 31, 31, 30, 29, 30, 29, 30, 30>>,  \* 2055
    <<31, 31, 32, 31, 32, 30, 30, 29, 30, 29, 30, 30>>,  \* 2056
    <<31, 32, 31, 32, 31, 30, 30, 30, 29, 30, 30, 30>>,  \* 2057
    <<30, 32, 31, 32, 31, 30, 30, 30, 29, 30, 30, 30>>,  \* 2058
    <<31, 31, 32, 31, 31, 31, 30, 29, 30, 29, 30, 30>>,  \* 2059
    <<31, 31, 32, 32, 31, 30, 30, 29, 30, 29, 30, 30>>,  \* 2060
    <<31, 32, 31, 32, 31, 30, 30, 30, 29, 29, 30, 31>>,  \* 2061
    <<30, 32, 31, 32, 31, 31, 29, 30, 29, 30, 29, 31>>,  \* 2062
    <<31, 31, 32, 31, 31, 31, 30, 29, 30, 29, 30, 30>>,  \* 2063
    <<31, 31, 32, 32, 31, 30, 30, 29, 30, 29, 30, 30>>,  \* 2064
    <<31, 32, 31, 32, 31, 30, 30, 30, 29, 29, 30, 31>>,  \* 2065
    <<31, 31, 31, 32, 31, 31, 29, 30, 30, 29, 29, 31>>,  \* 2066
    <<31, 31, 32, 31, 31, 31, 30, 29, 30, 29, 30, 30>>,  \* 2067
    <<31, 31, 32, 32, 31, 30, 30, 29, 30, 29, 30, 30>>,  \* 2068
    <<31, 32, 31, 32, 31, 30, 30, 30, 29, 29, 30, 31>>,  \* 2069
    <<31, 31, 31, 32, 31, 31, 29, 30, 30, 29, 30, 30>>,  \* 2070
    <<31, 31, 32, 31, 31, 31, 30, 29, 30, 29, 30, 30>>,  \* 2071
    <<31, 32, 31, 32, 31, 30, 30, 29, 30, 29, 30, 30>>,  \* 2072
    <<31, 32, 31, 32, 31, 30, 30, 30, 29, 29, 30, 31>>,  \* 2073
    <<31, 31, 31, 32, 31, 31, 30, 29, 30, 29, 30, 30>>,  \* 2074
    <<31, 31, 32, 31, 31, 31, 30, 29, 30, 29, 30, 30>>,  \* 2075
    <<31, 32, 31, 32, 31, 30, 30, 30, 29, 29, 30, 30>>,  \* 2076
    <<31, 32, 31, 32, 31, 30, 30, 30, 29, 30, 29, 31>>,  \* 2077
    <<31, 31, 31, 32, 31, 31, 30, 29, 30, 29, 30, 30>>,  \* 2078
    <<31, 31, 32, 31, 31, 31, 30, 29, 30, 29, 30, 30>>,  \* 2079
    <<31, 32, 31, 32, 31, 30, 30, 30, 29, 29, 30, 30>>,  \* 2080
    <<31, 31, 32, 32, 31, 30, 30, 30, 29, 30, 30, 30>>,  \* 2081
    <<30, 32, 31, 32, 31, 30, 30, 30, 29, 30, 30, 30>>,  \* 2082
    <<31, 31, 32, 31, 31, 30, 30, 30, 29, 30, 30, 30>>,  \* 2083
    <<31, 31, 32, 31, 31, 30, 30, 30, 29, 30, 30, 30>>,  \* 2084
    <<31, 32, 31, 32, 30, 31, 30, 30, 29, 30, 30, 30>>,  \* 2085
    <<30, 32, 31, 32, 31, 30, 30, 30, 29, 30, 30, 30>>,  \* 2086
    <<31, 31, 32, 31, 31, 31, 30, 30, 29, 30, 30, 30>>,  \* 2087
    <<30, 31, 32, 32, 30, 31, 30, 30, 29, 30, 30, 30>>,  \* 2088
    <<30, 32, 31, 32, 31, 30, 30, 30, 29, 30, 30, 30>>,  \* 2089
    <<30, 32, 31, 32, 31, 30, 30, 30, 29, 30, 30, 30>>,  \* 2090
    <<31, 31, 32, 31, 31, 31, 30, 30, 29, 30, 30, 30>>,  \* 2091
    <<30, 31, 32, 32, 31, 30, 30, 30, 29, 30, 30, 30>>,  \* 2092
    <<30, 32, 31, 32, 31, 30, 30, 30, 29, 30, 30, 30>>,  \* 2093
    <<31, 31, 32, 31, 31, 30, 30, 30, 29, 30, 30, 30>>,  \* 2094
    <<31, 31, 32, 31, 31, 31, 29, 30, 29, 30, 30, 30>>,  \* 2095
    <<30, 31, 32, 32, 31, 30, 30, 29, 30, 29, 30, 30>>,  \* 2096
    <<31, 32, 31, 32, 31, 30, 30, 30, 29, 30, 30, 30>>,  \* 2097
    <<31, 31, 32, 31, 31, 31, 30, 29, 29, 30, 30, 30>>,  \* 2098
    <<31, 31, 32, 31, 31, 31, 30, 29, 29, 30, 30, 30>>,  \* 2099
    <<31, 32, 31, 32, 30, 31, 30, 29, 30, 29, 30, 30>>  \* 2100
>>

\* The table without its last year.
nepaliCalendarData_No2100 == [y \in 2000..2099 |-> CalendarRows[y - 1999]]

\* nepaliCalendarData: Record<number, number[]>, keyed by BS year.
nepaliCalendarData == [y \in 2000..2100 |-> CalendarRows[y - 1999]]

\* nepaliCalendarData[year] is undefined for a year that is no key.
HasYear(y) == y \in DOMAIN nepaliCalendarData

\* The month names, transliterated; the source holds them in Devanagari.
nepaliMonthNames == << "Baishakh", "Jeth", "Ashadh", "Shrawan", "Bhadra",
                       "Ashwin", "Kartik", "Mangsir", "Poush", "Magh",
                       "Falgun", "Chaitra" >>

(* ------------------------- results and errors ------------------------- *)

NoValue == "none"

\* A normal return.
Return(v) == [ok |-> TRUE, code |-> "NONE", val |-> v]

\* throw createDateConversionError(code, message, details)
createDateConversionError(c) == [ok |-> FALSE, code |-> c, val |-> NoValue]

BS(y, m, d) == [year |-> y, month |-> m, day |-> d]

\* A Date holding the instant t, in minutes from new Date(1943, 3, 14).
Date(t) == [isDate |-> TRUE, valid |-> TRUE, time |-> t]

\* A Date that holds no instant (new Date("")): its getTime() is NaN.
InvalidDate == [isDate |-> TRUE, valid |-> FALSE]

\* A value that is no Date at all (undefined): it has no getTime.
Undefined == [isDate |-> FALSE, valid |-> FALSE]

\* The number NaN: every comparison with it is false, every sum with it NaN.
NaN == "NaN"

(* --------------------------- host time zone --------------------------- *)

MinutesPerDay == 1440

\* A host zone: from the instant changeAt on, its UTC offset is `shift`
\* minutes more than it was at the reference instant.
UTC == [name |-> "UTC", changeAt |-> 0, shift |-> 0]

\* Nepal: UTC+05:30 until the end of 1985, UTC+05:45 from 1 January 1986,
\* which is day 15603.
Kathmandu == [name |-> "Asia/Kathmandu", changeAt |-> 15603 * MinutesPerDay, shift |-> 15]

Zones == {UTC, Kathmandu}

\* Wall-clock minutes since the reference midnight that zone z shows at instant t.
WallClock(z, t) == IF t >= z.changeAt THEN t + z.shift ELSE t

\* The calendar day (getFullYear, getMonth, getDate) of instant t in zone z.
LocalDay(z, t) == WallClock(z, t) \div MinutesPerDay

\* new Date(year, month, day), and setDate on a midnight Date: midnight of
\* calendar day D on the wall clock of zone z, as an instant.
LocalMidnight(z, D) ==
    IF D * MinutesPerDay - z.shift >= z.changeAt
    THEN D * MinutesPerDay - z.shift
    ELSE D * MinutesPerDay

(* ------------------------------ validator ----------------------------- *)

\* isValidNepaliDate with the last day of each month refused (< for <=).
isValidNepaliDate_ShortMonth(nepaliDate) ==
    LET year  == nepaliDate.year
        month == nepaliDate.month
        day   == nepaliDate.day
    IN  IF year < 2000 \/ year > 2100 THEN FALSE
        ELSE IF month < 1 \/ month > 12 THEN FALSE
        ELSE IF ~HasYear(year) THEN FALSE
        ELSE LET daysInMonth == nepaliCalendarData[year][month]
             IN  day >= 1 /\ day < daysInMonth

isValidNepaliDate(nepaliDate) ==
    LET year  == nepaliDate.year
        month == nepaliDate.month
        day   == nepaliDate.day
    IN  IF year < 2000 \/ year > 2100 THEN FALSE
        ELSE IF month < 1 \/ month > 12 THEN FALSE
        ELSE IF ~HasYear(year) THEN FALSE
        ELSE LET daysInMonth == nepaliCalendarData[year][month]
             IN  day >= 1 /\ day <= daysInMonth

(* -------------------------- forward converter ------------------------- *)

\* A pass of the while loop that goes from month 12 to month 1 of the same
\* year (nepaliYear++ left out).
WalkStep_KeepsYear(w) ==
    IF ~(w.day > 0) THEN [w EXCEPT !.at = "return"]
    ELSE IF ~HasYear(w.year) THEN [w EXCEPT !.at = "throw"]
    ELSE LET daysInMonth == nepaliCalendarData[w.year][w.month]
         IN  IF w.day <= daysInMonth THEN [w EXCEPT !.at = "return"]
             ELSE IF w.month + 1 > 12
                  THEN [w EXCEPT !.day = w.day - daysInMonth, !.month = 1]
                  ELSE [w EXCEPT !.day = w.day - daysInMonth,
                                 !.month = w.month + 1]

\* One pass of the while loop of englishToNepali over
\* (nepaliYear, nepaliMonth, nepaliDay); `at` tells where control is next.
WalkStep(w) ==
    IF ~(w.day > 0) THEN [w EXCEPT !.at = "return"]
    ELSE IF ~HasYear(w.year) THEN [w EXCEPT !.at = "throw"]
    ELSE LET daysInMonth == nepaliCalendarData[w.year][w.month]
         IN  IF w.day <= daysInMonth THEN [w EXCEPT !.at = "return"]
             ELSE IF w.month + 1 > 12
                  THEN [w EXCEPT !.day = w.day - daysInMonth, !.month = 1,
                                 !.year = w.year + 1]
                  ELSE [w EXCEPT !.day = w.day - daysInMonth,
                                 !.month = w.month + 1]

\* n passes of the while loop, stopping at the break or the throw.
RECURSIVE WalkPasses(_, _)
WalkPasses(n, w) ==
    IF w.at # "loop" THEN w
    ELSE IF n = 1 THEN WalkStep(w)
    ELSE WalkPasses(n - (n \div 2), WalkPasses(n \div 2, w))

\* The while loop: passes until the break or the throw.
RECURSIVE WalkWhile(_, _)
WalkWhile(n, w) ==
    LET v == WalkPasses(n, w)
    IN  IF v.at # "loop" THEN v ELSE WalkWhile(2 * n, v)

\* englishToNepali counting from day 0 of the month (referenceNepali.day left out).
englishToNepali_DayZero(englishDate) ==
    IF ~englishDate.isDate
    THEN \* englishDate.getTime() throws a TypeError, which has no code:
         \* the catch block wraps it.
         createDateConversionError("INVALID_ENGLISH_DATE")
    ELSE IF ~englishDate.valid
    THEN \* getTime() is NaN, so diffDays is NaN: NaN < 0 is false, nepaliDay
         \* is NaN, NaN > 0 is false and the loop is not entered.
         Return(BS(2000, 1, NaN))
    ELSE
    LET diffTime == englishDate.time - 0
        diffDays == diffTime \div MinutesPerDay
    IN  IF diffDays < 0 THEN createDateConversionError("OUT_OF_RANGE")
        ELSE LET w == WalkWhile(1, [at |-> "loop", year |-> 2000,
                                    month |-> 1, day |-> diffDays])
             IN  IF w.at = "throw" THEN createDateConversionError("OUT_OF_RANGE")
                 ELSE Return(BS(w.year, w.month, w.day))

\* englishToNepali letting the day before the reference day through
\* (diffDays < -1 for diffDays < 0).
englishToNepali_LateFloor(englishDate) ==
    IF ~englishDate.isDate
    THEN \* englishDate.getTime() throws a TypeError, which has no code:
         \* the catch block wraps it.
         createDateConversionError("INVALID_ENGLISH_DATE")
    ELSE IF ~englishDate.valid
    THEN \* getTime() is NaN, so diffDays is NaN: NaN < 0 is false, nepaliDay
         \* is NaN, NaN > 0 is false and the loop is not entered.
         Return(BS(2000, 1, NaN))
    ELSE
    LET diffTime == englishDate.time - 0
        diffDays == diffTime \div MinutesPerDay
    IN  IF diffDays < -1 THEN createDateConversionError("OUT_OF_RANGE")
        ELSE LET w == WalkWhile(1, [at |-> "loop", year |-> 2000,
                                    month |-> 1, day |-> 1 + diffDays])
             IN  IF w.at = "throw" THEN createDateConversionError("OUT_OF_RANGE")
                 ELSE Return(BS(w.year, w.month, w.day))

\* englishDate is an instant; the reference instant is 0.
englishToNepali(englishDate) ==
    IF ~englishDate.isDate
    THEN \* englishDate.getTime() throws a TypeError, which has no code:
         \* the catch block wraps it.
         createDateConversionError("INVALID_ENGLISH_DATE")
    ELSE IF ~englishDate.valid
    THEN \* getTime() is NaN, so diffDays is NaN: NaN < 0 is false, nepaliDay
         \* is NaN, NaN > 0 is false and the loop is not entered.
         Return(BS(2000, 1, NaN))
    ELSE
    LET diffTime == englishDate.time - 0
        diffDays == diffTime \div MinutesPerDay
    IN  IF diffDays < 0 THEN createDateConversionError("OUT_OF_RANGE")
        ELSE LET w == WalkWhile(1, [at |-> "loop", year |-> 2000,
                                    month |-> 1, day |-> 1 + diffDays])
             IN  IF w.at = "throw" THEN createDateConversionError("OUT_OF_RANGE")
                 ELSE Return(BS(w.year, w.month, w.day))

(* -------------------------- reverse converter ------------------------- *)

\* monthData.reduce((sum, days) => sum + days, 0), over the first n months.
RECURSIVE SumDays(_, _)
SumDays(monthData, n) ==
    IF n = 0 THEN 0 ELSE SumDays(monthData, n - 1) + monthData[n]

\* The days of each year of the table.
YearDays == [y \in DOMAIN nepaliCalendarData |-> SumDays(nepaliCalendarData[y], 12)]

\* One pass of the loop over the complete years before nepaliDate.year.
YearStep(s, target) ==
    IF ~(s.year < target) THEN [s EXCEPT !.at = "exit"]
    ELSE IF ~HasYear(s.year) THEN [s EXCEPT !.at = "throw"]
    ELSE [s EXCEPT !.totalDays = s.totalDays + YearDays[s.year],
                   !.year = s.year + 1]

RECURSIVE YearPasses(_, _, _)
YearPasses(n, s, target) ==
    IF s.at # "loop" THEN s
    ELSE IF n = 1 THEN YearStep(s, target)
    ELSE YearPasses(n - (n \div 2), YearPasses(n \div 2, s, target), target)

\* The for loop over the years: passes until its exit or the throw.
RECURSIVE YearFor(_, _, _)
YearFor(n, s, target) ==
    LET v == YearPasses(n, s, target)
    IN  IF v.at # "loop" THEN v ELSE YearFor(2 * n, v, target)

\* The day count of nepaliToEnglish after its validity check: totalDays,
\* or the error thrown while counting.
CountDays(nepaliDate) ==
    LET s == YearFor(1, [at |-> "loop", year |-> 2000, totalDays |-> 0],
                     nepaliDate.year)
    IN  IF s.at = "throw" THEN createDateConversionError("OUT_OF_RANGE")
        ELSE IF ~HasYear(nepaliDate.year)
        THEN createDateConversionError("OUT_OF_RANGE")
        ELSE LET targetYearData == nepaliCalendarData[nepaliDate.year]
             IN  Return(s.totalDays
                        + SumDays(targetYearData, nepaliDate.month - 1)
                        + (nepaliDate.day - 1))

\* nepaliToEnglish looking the year up before it validates the date.
nepaliToEnglish_YearFirst(z, nepaliDate) ==
    IF ~HasYear(nepaliDate.year)
    THEN createDateConversionError("OUT_OF_RANGE")
    ELSE IF ~isValidNepaliDate(nepaliDate)
    THEN createDateConversionError("INVALID_NEPALI_DATE")
    ELSE LET totalDays == CountDays(nepaliDate)
         IN  IF ~totalDays.ok THEN totalDays
             ELSE Return(Date(LocalMidnight(z, 0 + totalDays.val)))

nepaliToEnglish(z, nepaliDate) ==
    IF ~isValidNepaliDate(nepaliDate)
    THEN createDateConversionError("INVALID_NEPALI_DATE")
    ELSE LET totalDays == CountDays(nepaliDate)
         IN  IF ~totalDays.ok THEN totalDays
             ELSE Return(Date(LocalMidnight(z, 0 + totalDays.val)))

(* ------------------------------ formatter ----------------------------- *)

Digit(n) == CASE n = 0 -> "0" [] n = 1 -> "1" [] n = 2 -> "2" [] n = 3 -> "3"
              [] n = 4 -> "4" [] n = 5 -> "5" [] n = 6 -> "6" [] n = 7 -> "7"
              [] n = 8 -> "8" [] n = 9 -> "9"

\* Number.prototype.toString() of an integer.
RECURSIVE NumToString(_)
NumToString(n) ==
    IF n < 0 THEN "-" \o NumToString(0 - n)
    ELSE IF n < 10 THEN Digit(n)
    ELSE NumToString(n \div 10) \o Digit(n % 10)

\* String.prototype.padStart(targetLength, "0")
RECURSIVE padStart(_, _)
padStart(s, targetLength) ==
    IF Len(s) >= targetLength THEN s ELSE padStart("0" \o s, targetLength)

\* formatNepaliDate with the day not padded.
formatNepaliDate_DayNotPadded(nepaliDate, format) ==
    LET fmt   == IF format = "undefined" THEN "short" ELSE format
        year  == nepaliDate.year
        month == nepaliDate.month
        day   == nepaliDate.day
    IN  IF fmt = "long"
        THEN LET monthName == IF month \in DOMAIN nepaliMonthNames
                              THEN nepaliMonthNames[month] ELSE "undefined"
             IN  NumToString(day) \o " " \o monthName \o " " \o NumToString(year)
        ELSE NumToString(year) \o "/" \o padStart(NumToString(month), 2)
             \o "/" \o NumToString(day)

\* `format` is "short", "long" or "undefined" (the argument left out).
formatNepaliDate(nepaliDate, format) ==
    LET fmt   == IF format = "undefined" THEN "short" ELSE format
        year  == nepaliDate.year
        month == nepaliDate.month
        day   == nepaliDate.day
    IN  IF fmt = "long"
        THEN LET monthName == IF month \in DOMAIN nepaliMonthNames
                              THEN nepaliMonthNames[month] ELSE "undefined"
             IN  NumToString(day) \o " " \o monthName \o " " \o NumToString(year)
        ELSE NumToString(year) \o "/" \o padStart(NumToString(month), 2)
             \o "/" \o padStart(NumToString(day), 2)

\* The heading of the calendar that shows currentMonth.
CalendarHeading(currentMonth) ==
    LET monthName == IF currentMonth.month \in DOMAIN nepaliMonthNames
                     THEN nepaliMonthNames[currentMonth.month] ELSE "undefined"
    IN  monthName \o " " \o NumToString(currentMonth.year)

(* ---------------------------- day-count lookup ------------------------ *)

\* getDaysInNepaliMonth refusing month 12 (>= for >).
getDaysInNepaliMonth_NoMonth12(year, month) ==
    IF ~HasYear(year) \/ month < 1 \/ month >= 12
    THEN createDateConversionError("INVALID_NEPALI_DATE")
    ELSE Return(nepaliCalendarData[year][month])

getDaysInNepaliMonth(year, month) ==
    IF ~HasYear(year) \/ month < 1 \/ month > 12
    THEN createDateConversionError("INVALID_NEPALI_DATE")
    ELSE Return(nepaliCalendarData[year][month])

(* ------------------------- current-date resolver --------------------- *)

\* getCurrentNepaliDate letting the error of englishToNepali through.
getCurrentNepaliDate_NoCatch(now) ==
    LET converted == englishToNepali(now)
    IN  converted

\* `now` is the Date that new Date() constructs.
getCurrentNepaliDate(now) ==
    LET converted == englishToNepali(now)
    IN  IF converted.ok THEN converted
        ELSE Return(BS(2081, 1, 1))

(* ------------------------------ the picker --------------------------- *)

\* null, as a value of a prop or of a piece of state.
Null == [isNull |-> TRUE]

\* The truthiness test `x &&` / `!x` of a value that is a date, null or
\* undefined.
Truthy(v) == v # Null /\ v # Undefined

\* The props the model keeps at their defaults.
disabled == FALSE
DefaultFormat == "short"
placeholder == "Select date"

\* Date.prototype.getDay() of new Date(1943, 3, 14), a Wednesday.
ReferenceWeekday == 3

\* Date.prototype.getDay() in zone z: 0 = Sunday.
getDay(z, date) == (LocalDay(z, date.time) + ReferenceWeekday) % 7

\* getCurrentNepaliDate() throwing instead of returning a date, as the
\* mock of the test suite does.
Thrown == [threw |-> TRUE]

\* The initial month taken from selectedDate without checking it.
InitialMonth_Unchecked(selectedDate, today) ==
    IF Truthy(selectedDate)
    THEN selectedDate
    ELSE IF today # Thrown /\ isValidNepaliDate(today) THEN today
    ELSE BS(2081, 8, 15)

\* The initial state of currentMonth in a calendar mounted with
\* selectedDate when getCurrentNepaliDate() returns `today`, or throws.
InitialMonth(selectedDate, today) ==
    IF Truthy(selectedDate) /\ isValidNepaliDate(selectedDate)
    THEN selectedDate
    ELSE IF today # Thrown /\ isValidNepaliDate(today) THEN today
    ELSE BS(2081, 8, 15)

\* The memo calendarData of the calendar showing currentMonth: the cells of
\* the grid, or no cell and the error flag when a lookup throws.
calendarData(z, currentMonth) ==
    LET daysInMonth == getDaysInNepaliMonth(currentMonth.year, currentMonth.month)
        firstDayOfMonth == nepaliToEnglish(z, [currentMonth EXCEPT !.day = 1])
    IN  IF ~daysInMonth.ok \/ ~firstDayOfMonth.ok
        THEN [days |-> << >>, daysInMonth |-> 0, error |-> TRUE]
        ELSE LET startDayOfWeek == getDay(z, firstDayOfMonth.val)
             IN  [days |-> [i \in 1..(startDayOfWeek + daysInMonth.val) |->
                              IF i <= startDayOfWeek THEN Null
                              ELSE BS(currentMonth.year, currentMonth.month,
                                      i - startDayOfWeek)],
                  daysInMonth |-> daysInMonth.val,
                  error |-> FALSE]

\* navigateMonth refusing the last year (>= for >).
navigateMonth_StopsEarly(prev, direction) ==
    LET stepped  == prev.month + (IF direction = "next" THEN 1 ELSE -1)
        newMonth == IF stepped > 12 THEN 1 ELSE IF stepped < 1 THEN 12 ELSE stepped
        newYear  == IF stepped > 12 THEN prev.year + 1
                    ELSE IF stepped < 1 THEN prev.year - 1 ELSE prev.year
    IN  IF newYear < 2000 \/ newYear >= 2100 THEN prev
        ELSE BS(newYear, newMonth, 1)

\* navigateMonth without the check of the year.
navigateMonth_Unchecked(prev, direction) ==
    LET stepped  == prev.month + (IF direction = "next" THEN 1 ELSE -1)
        newMonth == IF stepped > 12 THEN 1 ELSE IF stepped < 1 THEN 12 ELSE stepped
        newYear  == IF stepped > 12 THEN prev.year + 1
                    ELSE IF stepped < 1 THEN prev.year - 1 ELSE prev.year
    IN  BS(newYear, newMonth, 1)

\* The updater that navigateMonth(direction) hands to setCurrentMonth.
navigateMonth(prev, direction) ==
    LET stepped  == prev.month + (IF direction = "next" THEN 1 ELSE -1)
        newMonth == IF stepped > 12 THEN 1 ELSE IF stepped < 1 THEN 12 ELSE stepped
        newYear  == IF stepped > 12 THEN prev.year + 1
                    ELSE IF stepped < 1 THEN prev.year - 1 ELSE prev.year
    IN  IF newYear < 2000 \/ newYear > 2100 THEN prev
        ELSE BS(newYear, newMonth, 1)

\* The disabled attribute of the previous-month and of the next-month button.
PrevDisabled(currentMonth) == currentMonth.year <= 2000 /\ currentMonth.month <= 1
NextDisabled(currentMonth) == currentMonth.year >= 2100 /\ currentMonth.month >= 12

\* isDateDisabled comparing only the days of the dates of maxDate's year.
isDateDisabled_MonthIgnored(minDate, maxDate, date) ==
    \/ /\ Truthy(minDate)
       /\ \/ date.year < minDate.year
          \/ date.year = minDate.year /\ date.month < minDate.month
          \/ date.year = minDate.year /\ date.month = minDate.month
                /\ date.day < minDate.day
    \/ /\ Truthy(maxDate)
       /\ \/ date.year > maxDate.year
          \/ date.year = maxDate.year /\ date.day > maxDate.day

isDateDisabled(minDate, maxDate, date) ==
    \/ /\ Truthy(minDate)
       /\ \/ date.year < minDate.year
          \/ date.year = minDate.year /\ date.month < minDate.month
          \/ date.year = minDate.year /\ date.month = minDate.month
                /\ date.day < minDate.day
    \/ /\ Truthy(maxDate)
       /\ \/ date.year > maxDate.year
          \/ date.year = maxDate.year /\ date.month > maxDate.month
          \/ date.year = maxDate.year /\ date.month = maxDate.month
                /\ date.day > maxDate.day

Min(a, b) == IF a < b THEN a ELSE b
Max(a, b) == IF a > b THEN a ELSE b

\* The switch of handleKeyDown with ArrowUp moving by six days.
KeySwitch_WeekOfSix(focusedDate, key) ==
    LET maxDay == getDaysInNepaliMonth(focusedDate.year, focusedDate.month)
        move(d) == [handled |-> TRUE, select |-> FALSE, threw |-> FALSE,
                    newFocusedDate |-> [focusedDate EXCEPT !.day = d]]
        threw   == [handled |-> TRUE, select |-> FALSE, threw |-> TRUE,
                    newFocusedDate |-> focusedDate]
    IN  CASE key = "ArrowLeft"  -> move(Max(1, focusedDate.day - 1))
          [] key = "ArrowRight" ->
                IF maxDay.ok THEN move(Min(maxDay.val, focusedDate.day + 1))
                ELSE threw
          [] key = "ArrowUp"    -> move(Max(1, focusedDate.day - 6))
          [] key = "ArrowDown"  ->
                IF maxDay.ok THEN move(Min(maxDay.val, focusedDate.day + 7))
                ELSE threw
          [] key \in {"Enter", " "} ->
                [handled |-> TRUE, select |-> TRUE, threw |-> FALSE,
                 newFocusedDate |-> focusedDate]
          [] key = "Home"       -> move(1)
          [] key = "End"        ->
                IF maxDay.ok THEN move(maxDay.val) ELSE threw
          [] OTHER ->
                [handled |-> FALSE, select |-> FALSE, threw |-> FALSE,
                 newFocusedDate |-> focusedDate]

\* The switch of the calendar's handleKeyDown on a focused date: what the
\* key does with newFocusedDate. `select` tells that Enter or Space was
\* pressed, `handled` that the key has a case.
KeySwitch(focusedDate, key) ==
    LET maxDay == getDaysInNepaliMonth(focusedDate.year, focusedDate.month)
        move(d) == [handled |-> TRUE, select |-> FALSE, threw |-> FALSE,
                    newFocusedDate |-> [focusedDate EXCEPT !.day = d]]
        threw   == [handled |-> TRUE, select |-> FALSE, threw |-> TRUE,
                    newFocusedDate |-> focusedDate]
    IN  CASE key = "ArrowLeft"  -> move(Max(1, focusedDate.day - 1))
          [] key = "ArrowRight" ->
                IF maxDay.ok THEN move(Min(maxDay.val, focusedDate.day + 1))
                ELSE threw
          [] key = "ArrowUp"    -> move(Max(1, focusedDate.day - 7))
          [] key = "ArrowDown"  ->
                IF maxDay.ok THEN move(Min(maxDay.val, focusedDate.day + 7))
                ELSE threw
          [] key \in {"Enter", " "} ->
                [handled |-> TRUE, select |-> TRUE, threw |-> FALSE,
                 newFocusedDate |-> focusedDate]
          [] key = "Home"       -> move(1)
          [] key = "End"        ->
                IF maxDay.ok THEN move(maxDay.val) ELSE threw
          [] OTHER ->
                [handled |-> FALSE, select |-> FALSE, threw |-> FALSE,
                 newFocusedDate |-> focusedDate]

\* The trigger's handleKeyDown skipping the Escape case.
TriggerKey_NoEscape(isOpen, key) ==
    IF key \in {"Enter", " "} THEN ~isOpen
    ELSE IF key = "ArrowDown" /\ ~isOpen THEN TRUE
    ELSE isOpen

\* The trigger's handleKeyDown: the value of isOpen after the key.
TriggerKey(isOpen, key) ==
    IF key \in {"Enter", " "} THEN ~isOpen
    ELSE IF key = "Escape" /\ isOpen THEN FALSE
    ELSE IF key = "ArrowDown" /\ ~isOpen THEN TRUE
    ELSE isOpen

\* The memo displayValue: the text the trigger shows.
displayValue(selectedDate) ==
    IF ~Truthy(selectedDate) THEN placeholder
    ELSE formatNepaliDate(selectedDate, DefaultFormat)

(* ------------------------------- inputs ------------------------------- *)

\* The days the table spans: the supported Gregorian days are 0..TotalDays-1.
TotalDays == SumDays([i \in 1..101 |-> YearDays[1999 + i]], 101)

YearInputs  == (2000 - Margin)..(2100 + Margin)
MonthInputs == (1 - Margin)..(12 + Margin)

\* BS dates: the first days of a month and the days around its end, in
\* and around the table.
\* The dates the test suite selects and displays.
ExampleDates == {BS(2081, 8, 15), BS(2081, 5, 10)}

BSInputs ==
    [year : YearInputs, month : MonthInputs,
     day  : ((1 - Margin)..(1 + Edge)) \cup ((29 - Edge)..(32 + Margin))]
    \cup ExampleDates

\* The Gregorian day on which each BS month of the table starts.
MonthStartDays ==
    {CountDays(BS(y, m, 1)).val : y \in 2000..2100, m \in 1..12}

\* Gregorian days: those within Edge of a month start, those within
\* Margin of either end of the supported span, and the day on which a
\* zone changes its offset with the day before it.
DayInputs ==
    {D \in (0 - Margin)..(TotalDays - 1 + Margin) :
        \/ \E k \in (0 - Edge)..Edge : D + k \in MonthStartDays
        \/ D < Margin
        \/ D >= TotalDays - Margin
        \/ \E z \in Zones : (z.changeAt \div MinutesPerDay) - D \in {0, 1}}

FormatInputs == {"short", "long", "undefined"}

\* Times of day, in minutes after midnight.
TimesOfDay == {0, 1, 720, MinutesPerDay - 1}

\* Present instants: times of the days within Margin of either end of the
\* supported span, of the day the test suite takes as today and of the day
\* of the fallback date.
NowInputs ==
    {D * MinutesPerDay + m :
        D \in ((0 - Margin)..Margin)
              \cup ((TotalDays - 1 - Margin)..(TotalDays - 1 + Margin))
              \cup {CountDays(BS(2081, 8, 15)).val, CountDays(BS(2081, 1, 1)).val},
        m \in TimesOfDay}

\* Instants whose walk is followed pass by pass: the day before the span,
\* its first days, the first day of its second month, its last days, the
\* days after it and a day as far after it as the span is long.
WalkInputs ==
    {Date(D * MinutesPerDay + m) :
        D \in ((0 - 1)..Margin)
              \cup {CountDays(BS(2000, 2, 1)).val, CountDays(BS(2081, 8, 15)).val}
              \cup ((TotalDays - Margin)..(TotalDays + Margin))
              \cup {2 * TotalDays},
        m \in {0, MinutesPerDay - 1}}

\* Arguments of englishToNepali that hold no instant.
MalformedInputs == {InvalidDate, Undefined}

\* The value prop of a controlled picker: null or a date.
ValueInputs == {Null, BS(2081, 8, 15), BS(2081, 8, 25)}

\* The minDate and maxDate props: either or both.
ConstraintInputs ==
    {[minDate |-> BS(2081, 8, 20), maxDate |-> Undefined],
     [minDate |-> Undefined,       maxDate |-> BS(2081, 8, 10)],
     [minDate |-> BS(2081, 8, 10), maxDate |-> BS(2081, 8, 20)]}

Unconstrained == [minDate |-> Undefined, maxDate |-> Undefined]

\* What getCurrentNepaliDate() returns while the picker is mounted: the two
\* days the test suite mocks, its fallback date and the last day of the
\* table.
TodayInputs ==
    {BS(2000, 1, 1), BS(2081, 8, 15), BS(2081, 1, 1), BS(2100, 12, 30)}

\* A rendered picker: the host zone, today, and the props value,
\* defaultValue, minDate and maxDate.
Setup(z, t, v, dv, c) ==
    [zone |-> z, today |-> t, value |-> v, defaultValue |-> dv,
     minDate |-> c.minDate, maxDate |-> c.maxDate]

\* The pickers rendered: without props on each of the days, and on one of
\* them in the other zone; with constraints, controlled, and with a default
\* value.
Setups ==
    {Setup(Kathmandu, t, Undefined, Null, Unconstrained) : t \in TodayInputs}
    \cup {Setup(UTC, BS(2081, 8, 15), Undefined, Null, Unconstrained)}
    \cup {Setup(Kathmandu, BS(2081, 8, 15), Undefined, Null, c) :
            c \in ConstraintInputs}
    \cup {Setup(Kathmandu, BS(2081, 8, 15), v, Null, Unconstrained) :
            v \in ValueInputs}
    \cup {Setup(Kathmandu, BS(2081, 8, 15), Undefined, BS(2081, 8, 15),
                Unconstrained)}

\* The calendars whose months are all navigated: in each zone, mounted
\* without a selection, with a valid one and with one that is no BS date
\* (month 13), while getCurrentNepaliDate() returns a date of the table,
\* returns a date outside it, or throws.
CalendarSetups ==
    {Setup(z, t, Undefined, dv, Unconstrained) :
        z \in Zones,
        t \in {BS(2081, 8, 15), BS(2100 + 1, 1, 1), Thrown},
        dv \in {Null, BS(2000, 1, 1), BS(2081, 13, 1)}}

\* The days of a month of daysInMonth days that get clicked or focused: the
\* first, the last and those of the dates in `dates` that fall in it.
DaysPicked(month, daysInMonth, dates) ==
    {1, daysInMonth}
    \cup {d.day : d \in {p \in dates : /\ Truthy(p)
                                       /\ p.year = month.year
                                       /\ p.month = month.month}}

\* The dates handleDateSelect is called with: days at the ends of months
\* at the ends of years in and around the table, valid and not.
SelectInputs ==
    [year  : {2000 - 1, 2000, 2081, 2100, 2100 + 1},
     month : {0, 1, 8, 12, 13},
     day   : {0, 1, 29, 30, 31, 32, 33}]

\* The keys pressed on the trigger and on the calendar.
TriggerKeys == {"Enter", " ", "Escape", "ArrowDown", "Tab"}
CalendarKeys ==
    {"ArrowLeft", "ArrowRight", "ArrowUp", "ArrowDown", "Enter", " ",
     "Home", "End", "PageUp", "PageDown"}

(* ------------------------------- state -------------------------------- *)

VARIABLES
    zone,     \* the time zone of the host
    pc,       \* "idle": nothing called yet; "called": one call made;
              \* "back": the result of a conversion converted back
    op,       \* the function called last
    arg,      \* its argument
    res,      \* what it returned or threw
    origin,   \* at "back": the argument of the first conversion
    today,         \* what getCurrentNepaliDate() returns
    minDate,       \* the minDate prop
    maxDate,       \* the maxDate prop
    value,         \* the value prop
    selectedDate,  \* NepaliDatePicker: the state selectedDate
    isOpen,        \* NepaliDatePicker: the state isOpen
    currentMonth,  \* NepaliCalendar: the state currentMonth (Null: not mounted)
    focusedDate,   \* NepaliCalendar: the state focusedDate
    event,         \* the last event the picker handled
    calls,         \* the arguments of the calls of onValueChange in that event
    errors,        \* the arguments of the calls of onError in that event
    keys           \* key presses on the mounted calendar so far

engineVars == <<pc, op, arg, res, origin>>
pickerVars == <<today, minDate, maxDate, value, selectedDate, isOpen,
                currentMonth, focusedDate, event, calls, errors, keys>>
vars == <<zone, engineVars, pickerVars>>

\* An event of type t with key (or direction) k on date d (the day clicked,
\* the date that had the focus, the month that was displayed), and whether
\* the popover was open when it arrived.
Event(t, k, d) ==
    [type |-> t, key |-> k, date |-> d, wasOpen |-> isOpen]

\* No picker is rendered.
NoPicker ==
    /\ today = Null /\ minDate = Undefined /\ maxDate = Undefined
    /\ value = Undefined /\ selectedDate = Null /\ isOpen = FALSE
    /\ currentMonth = Null /\ focusedDate = Null
    /\ event = Event("none", "", Null) /\ calls = << >> /\ errors = << >>
    /\ keys = 0

Init ==
    /\ zone \in Zones
    /\ pc = "idle"
    /\ op = NoValue
    /\ arg = NoValue
    /\ res = NoValue
    /\ origin = NoValue
    /\ NoPicker

Called(o, a, r) ==
    /\ pc' = "called"
    /\ op' = o
    /\ arg' = a
    /\ res' = r
    /\ UNCHANGED <<zone, origin, pickerVars>>

CallIsValidNepaliDate ==
    /\ pc = "idle"
    /\ \E d \in BSInputs :
        Called("isValidNepaliDate", d, Return(isValidNepaliDate(d)))

CallEnglishToNepali ==
    /\ pc = "idle"
    /\ \E g \in {Date(LocalMidnight(zone, D)) : D \in DayInputs} \cup MalformedInputs :
        Called("englishToNepali", g, englishToNepali(g))

CallNepaliToEnglish ==
    /\ pc = "idle"
    /\ \E d \in BSInputs : Called("nepaliToEnglish", d, nepaliToEnglish(zone, d))

CallFormatNepaliDate ==
    /\ pc = "idle"
    /\ \E d \in BSInputs, f \in FormatInputs :
        Called("formatNepaliDate", [date |-> d, format |-> f],
               Return(formatNepaliDate(d, f)))

CallGetDaysInNepaliMonth ==
    /\ pc = "idle"
    /\ \E y \in YearInputs, m \in MonthInputs :
        Called("getDaysInNepaliMonth", [year |-> y, month |-> m],
               getDaysInNepaliMonth(y, m))

CallGetCurrentNepaliDate ==
    /\ pc = "idle"
    /\ \E t \in NowInputs :
        Called("getCurrentNepaliDate", Date(t), getCurrentNepaliDate(Date(t)))

\* englishToNepali applied to the Date that nepaliToEnglish returned.
ConvertBackToNepali ==
    /\ pc = "called" /\ op = "nepaliToEnglish" /\ res.ok
    /\ pc' = "back"
    /\ op' = "englishToNepali"
    /\ arg' = res.val
    /\ res' = englishToNepali(res.val)
    /\ origin' = arg
    /\ UNCHANGED <<zone, pickerVars>>

\* nepaliToEnglish applied to the date that englishToNepali returned.
ConvertBackToEnglish ==
    /\ pc = "called" /\ op = "englishToNepali" /\ arg.valid /\ res.ok
    /\ pc' = "back"
    /\ op' = "nepaliToEnglish"
    /\ arg' = res.val
    /\ res' = nepaliToEnglish(zone, res.val)
    /\ origin' = arg
    /\ UNCHANGED <<zone, pickerVars>>

Next ==
    \/ CallIsValidNepaliDate
    \/ CallNepaliToEnglish
    \/ CallEnglishToNepali
    \/ CallFormatNepaliDate
    \/ CallGetDaysInNepaliMonth
    \/ CallGetCurrentNepaliDate
    \/ ConvertBackToNepali
    \/ ConvertBackToEnglish

Spec == Init /\ [][Next]_vars

(* ----------------- the forward converter, pass by pass ---------------- *)

\* englishToNepali called and run up to its while loop: diffDays, the
\* range check and the initial (nepaliYear, nepaliMonth, nepaliDay), held
\* in res.
InitWalk ==
    /\ zone \in Zones
    /\ \E g \in WalkInputs :
        LET diffTime == g.time - 0
            diffDays == diffTime \div MinutesPerDay
            w == [at |-> IF diffDays < 0 THEN "throw" ELSE "loop",
                  year |-> 2000, month |-> 1, day |-> 1 + diffDays]
        IN  /\ op = "englishToNepali"
            /\ arg = g
            /\ res = w
            /\ pc = IF w.at = "loop" THEN "walk" ELSE "walked"
    /\ origin = NoValue
    /\ NoPicker

\* One pass of the while loop.
WalkPass ==
    /\ pc = "walk"
    /\ res' = WalkStep(res)
    /\ pc' = IF res'.at = "loop" THEN "walk" ELSE "walked"
    /\ UNCHANGED <<zone, op, arg, origin, pickerVars>>

NextWalk == WalkPass

\* The loop is straight-line code of one thread: a pass that can be taken
\* is taken.
SpecWalk == InitWalk /\ [][NextWalk]_vars /\ WF_vars(WalkPass)

(* --------------------------- the picker, rendered --------------------- *)

\* useState(value ?? defaultValue ?? null), then the effect on [value] of
\* the first render; the popover closed, no calendar mounted.
InitPicker ==
    /\ pc = "idle" /\ op = NoValue /\ arg = NoValue /\ res = NoValue
    /\ origin = NoValue
    /\ \E s \in Setups :
        /\ zone = s.zone
        /\ today = s.today
        /\ minDate = s.minDate
        /\ maxDate = s.maxDate
        /\ value = s.value
        /\ selectedDate = IF s.value # Undefined THEN s.value ELSE s.defaultValue
    /\ isOpen = FALSE
    /\ currentMonth = Null
    /\ focusedDate = Null
    /\ event = Event("mount", "", Null)
    /\ calls = << >>
    /\ errors = << >>
    /\ keys = 0

\* setIsOpen(open): the popover renders its content, the calendar, only
\* while it is open, so opening mounts a calendar for the selected date
\* `selected` and closing unmounts it.
setIsOpen(open, selected) ==
    /\ isOpen' = open
    /\ IF open /\ ~isOpen
       THEN /\ currentMonth' = InitialMonth(selected, today)
            /\ focusedDate' = Null
            /\ keys' = 0
       ELSE IF ~open
       THEN /\ currentMonth' = Null
            /\ focusedDate' = Null
            /\ keys' = 0
       ELSE UNCHANGED <<currentMonth, focusedDate, keys>>

\* handleDateSelect without its validity check.
handleDateSelect_Unchecked(date) ==
    /\ selectedDate' = date
    /\ calls' = <<date>>
    /\ errors' = << >>
    /\ setIsOpen(FALSE, date)

\* handleDateSelect leaving the popover open.
handleDateSelect_StaysOpen(date) ==
    IF ~isValidNepaliDate(date)
    THEN /\ calls' = << >>
         /\ errors' = <<createDateConversionError("INVALID_NEPALI_DATE")>>
         /\ UNCHANGED <<selectedDate, isOpen, currentMonth, focusedDate, keys>>
    ELSE /\ selectedDate' = date
         /\ calls' = <<date>>
         /\ errors' = << >>
         /\ UNCHANGED <<isOpen, currentMonth, focusedDate, keys>>

\* handleDateSelect(date).
handleDateSelect(date) ==
    IF ~isValidNepaliDate(date)
    THEN /\ calls' = << >>
         /\ errors' = <<createDateConversionError("INVALID_NEPALI_DATE")>>
         /\ UNCHANGED <<selectedDate, isOpen, currentMonth, focusedDate, keys>>
    ELSE /\ selectedDate' = date
         /\ calls' = <<date>>
         /\ errors' = << >>
         /\ setIsOpen(FALSE, date)

\* The cells of the grid that hold a day that gets clicked or focused: the
\* first and the last day of the month, and the days of today, of the
\* bounds and of the value.
PickedCells ==
    LET data == calendarData(zone, currentMonth)
        days == DaysPicked(currentMonth, data.daysInMonth,
                           {today, minDate, maxDate, value})
    IN  {data.days[i] : i \in {j \in DOMAIN data.days :
            /\ data.days[j] # Null
            /\ data.days[j].day \in days}}

\* The months from BS 0/1 to the month of date.
MonthIndex(date) == date.year * 12 + date.month

\* A click on the trigger: the popover toggles.
ClickTrigger ==
    /\ ~disabled
    /\ setIsOpen(~isOpen, selectedDate)
    /\ event' = Event("click trigger", "", Null)
    /\ calls' = << >>
    /\ errors' = << >>
    /\ UNCHANGED <<zone, engineVars, today, minDate, maxDate, value,
                   selectedDate>>

\* A key pressed on the trigger.
TriggerKeyDown ==
    /\ ~disabled
    /\ \E key \in TriggerKeys :
        /\ setIsOpen(TriggerKey(isOpen, key), selectedDate)
        /\ event' = Event("trigger key", key, Null)
    /\ calls' = << >>
    /\ errors' = << >>
    /\ UNCHANGED <<zone, engineVars, today, minDate, maxDate, value,
                   selectedDate>>

\* Escape pressed in the open popover, or a click outside it:
\* onOpenChange(false).
DismissPopover ==
    /\ isOpen
    /\ setIsOpen(FALSE, selectedDate)
    /\ event' = Event("dismiss", "", Null)
    /\ calls' = << >>
    /\ errors' = << >>
    /\ UNCHANGED <<zone, engineVars, today, minDate, maxDate, value,
                   selectedDate>>

\* A click on the previous-month or next-month button, when enabled.
NavigateMonth ==
    /\ isOpen
    /\ \E direction \in {"prev", "next"} :
        /\ IF direction = "prev" THEN ~PrevDisabled(currentMonth)
           ELSE ~NextDisabled(currentMonth)
        /\ MonthIndex(navigateMonth(currentMonth, direction)) - MonthIndex(today)
                \in (0 - NavReach)..NavReach
        /\ currentMonth' = navigateMonth(currentMonth, direction)
        /\ event' = Event("navigate", direction, currentMonth)
    /\ calls' = << >>
    /\ errors' = << >>
    /\ UNCHANGED <<zone, engineVars, today, minDate, maxDate, value,
                   selectedDate, isOpen, focusedDate, keys>>

\* A click on the previous-month or next-month button, when enabled, on
\* whatever month is displayed.
NavigateAnyMonth ==
    /\ isOpen
    /\ \E direction \in {"prev", "next"} :
        /\ IF direction = "prev" THEN ~PrevDisabled(currentMonth)
           ELSE ~NextDisabled(currentMonth)
        /\ currentMonth' = navigateMonth(currentMonth, direction)
        /\ event' = Event("navigate", direction, currentMonth)
    /\ calls' = << >>
    /\ errors' = << >>
    /\ UNCHANGED <<zone, engineVars, today, minDate, maxDate, value,
                   selectedDate, isOpen, focusedDate, keys>>

\* A day button takes the focus (a disabled button cannot).
FocusDay ==
    /\ isOpen
    /\ \E date \in PickedCells :
        /\ ~isDateDisabled(minDate, maxDate, date)
        /\ focusedDate' = date
        /\ event' = Event("focus day", "", date)
    /\ calls' = << >>
    /\ errors' = << >>
    /\ UNCHANGED <<zone, engineVars, today, minDate, maxDate, value,
                   selectedDate, isOpen, currentMonth, keys>>

\* A click on a day of the grid.
ClickDay ==
    /\ isOpen
    /\ \E date \in PickedCells :
        /\ event' = Event("click day", "", date)
        /\ IF ~isDateDisabled(minDate, maxDate, date)
           THEN handleDateSelect(date)
           ELSE /\ calls' = << >>
                /\ errors' = << >>
                /\ UNCHANGED <<selectedDate, isOpen, currentMonth, focusedDate,
                               keys>>
    /\ UNCHANGED <<zone, engineVars, today, minDate, maxDate, value>>

\* A key pressed in the calendar: the calendar's handleKeyDown.
CalendarKeyDown ==
    /\ isOpen
    /\ \E key \in CalendarKeys :
        /\ event' = Event("calendar key", key, focusedDate)
        /\ IF ~Truthy(focusedDate)
           THEN /\ calls' = << >>
                /\ errors' = << >>
                /\ UNCHANGED <<selectedDate, isOpen, currentMonth, focusedDate,
                               keys>>
           ELSE LET k == KeySwitch(focusedDate, key)
                IN  IF ~k.handled \/ k.threw
                    THEN /\ calls' = << >>
                         /\ errors' = << >>
                         /\ UNCHANGED <<selectedDate, isOpen, currentMonth,
                                        focusedDate, keys>>
                    ELSE IF k.select
                    THEN IF /\ isValidNepaliDate(k.newFocusedDate)
                            /\ ~isDateDisabled(minDate, maxDate, k.newFocusedDate)
                         THEN handleDateSelect(k.newFocusedDate)
                         ELSE /\ calls' = << >>
                              /\ errors' = << >>
                              /\ UNCHANGED <<selectedDate, isOpen, currentMonth,
                                             focusedDate, keys>>
                    ELSE /\ keys < MaxKeys
                         /\ focusedDate' =
                                IF isValidNepaliDate(k.newFocusedDate)
                                THEN k.newFocusedDate ELSE focusedDate
                         /\ calls' = << >>
                         /\ errors' = << >>
                         /\ keys' = keys + 1
                         /\ UNCHANGED <<selectedDate, isOpen, currentMonth>>
    /\ UNCHANGED <<zone, engineVars, today, minDate, maxDate, value>>

\* onDateSelect of the mounted calendar, which is handleDateSelect, called
\* with a date.
CallOnDateSelect ==
    /\ isOpen
    /\ \E date \in SelectInputs :
        /\ event' = Event("select", "", date)
        /\ handleDateSelect(date)
    /\ UNCHANGED <<zone, engineVars, today, minDate, maxDate, value>>

\* handleClear closing the popover as well.
ClickClear_Closes ==
    /\ Truthy(selectedDate) /\ ~disabled
    /\ selectedDate' = Null
    /\ calls' = <<Null>>
    /\ errors' = << >>
    /\ event' = Event("clear", "", Null)
    /\ setIsOpen(FALSE, Null)
    /\ UNCHANGED <<zone, engineVars, today, minDate, maxDate, value>>

\* A click on the clear control, which is rendered while a date is selected:
\* handleClear.
ClickClear ==
    /\ Truthy(selectedDate) /\ ~disabled
    /\ selectedDate' = Null
    /\ calls' = <<Null>>
    /\ errors' = << >>
    /\ event' = Event("clear", "", Null)
    /\ UNCHANGED <<zone, engineVars, today, minDate, maxDate, value, isOpen,
                   currentMonth, focusedDate, keys>>

\* The parent renders a controlled picker with a value prop v: the effect
\* on [value].
SetValue ==
    /\ value # Undefined
    /\ \E v \in ValueInputs :
        /\ value' = v
        /\ selectedDate' = IF v # Undefined THEN v ELSE selectedDate
    /\ event' = Event("value", "", Null)
    /\ calls' = << >>
    /\ errors' = << >>
    /\ UNCHANGED <<zone, engineVars, today, minDate, maxDate, isOpen,
                   currentMonth, focusedDate, keys>>

NextPicker ==
    \/ ClickTrigger
    \/ TriggerKeyDown
    \/ DismissPopover
    \/ NavigateMonth
    \/ FocusDay
    \/ ClickDay
    \/ CalendarKeyDown
    \/ ClickClear
    \/ SetValue

SpecPicker == InitPicker /\ [][NextPicker]_vars

\* The calendar of a picker, opened, navigated through all its months and
\* closed. Its first render is that of InitPicker.
InitCalendar ==
    /\ pc = "idle" /\ op = NoValue /\ arg = NoValue /\ res = NoValue
    /\ origin = NoValue
    /\ \E s \in CalendarSetups :
        /\ zone = s.zone
        /\ today = s.today
        /\ minDate = s.minDate
        /\ maxDate = s.maxDate
        /\ value = s.value
        /\ selectedDate = IF s.value # Undefined THEN s.value ELSE s.defaultValue
    /\ isOpen = FALSE
    /\ currentMonth = Null
    /\ focusedDate = Null
    /\ event = Event("mount", "", Null)
    /\ calls = << >>
    /\ errors = << >>
    /\ keys = 0

NextCalendar ==
    \/ ClickTrigger
    \/ NavigateAnyMonth

SpecCalendar == InitCalendar /\ [][NextCalendar]_vars

\* The picker with its date-selection handler called on any date.
NextSelect ==
    \/ ClickTrigger
    \/ CallOnDateSelect

SpecSelect == InitPicker /\ [][NextSelect]_vars

(* ------------------------------- claims ------------------------------- *)

OutOfRange == createDateConversionError("OUT_OF_RANGE")
InvalidNepaliDate == createDateConversionError("INVALID_NEPALI_DATE")

\* The Gregorian days the table covers: BS 2000/1/1 up to the last day of
\* BS 2100 month 12.
SupportedDays == 0..(TotalDays - 1)

\* The table length of month m of year y, read off the rows.
TableLength(y, m) == CalendarRows[y - 1999][m]

InTable(d) ==
    /\ d.year \in 2000..2100
    /\ d.month \in 1..12
    /\ d.day >= 1
    /\ d.day <= TableLength(d.year, d.month)

\* C1. Round trip A: a valid BS date converted to Gregorian by
\* nepaliToEnglish and back by englishToNepali comes back unchanged.
RoundTripA ==
    (pc = "back" /\ op = "englishToNepali") => res = Return(origin)

\* C2. Round trip B: for a Gregorian date of the supported span,
\* englishToNepali succeeds, and nepaliToEnglish of its result is the same
\* calendar date.
RoundTripB ==
    /\ (pc = "called" /\ op = "englishToNepali"
            /\ arg.valid /\ LocalDay(zone, arg.time) \in SupportedDays)
        => res.ok
    /\ (pc = "back" /\ op = "nepaliToEnglish"
            /\ LocalDay(zone, origin.time) \in SupportedDays)
        => (res.ok /\ LocalDay(zone, res.val.time) = LocalDay(zone, origin.time))

\* C3. The epoch anchor holds in both directions: englishToNepali of
\* 14 April 1943 is BS 2000/1/1, and nepaliToEnglish of BS 2000/1/1 is
\* 14 April 1943.
EpochAnchor ==
    /\ (op = "englishToNepali" /\ arg.valid /\ LocalDay(zone, arg.time) = 0)
        => res = Return(BS(2000, 1, 1))
    /\ (op = "nepaliToEnglish" /\ arg = BS(2000, 1, 1))
        => res = Return(Date(LocalMidnight(zone, 0)))

\* 14 April 1943 converted to BS 2000/1/1 and that converted back.
EpochAnchorWitness ==
    /\ pc = "back" /\ op = "nepaliToEnglish"
    /\ origin = Date(LocalMidnight(zone, 0))
    /\ arg = BS(2000, 1, 1)
    /\ res.ok /\ LocalDay(zone, res.val.time) = 0

\* C4. englishToNepali fails with OUT_OF_RANGE for every Gregorian date
\* before 14 April 1943 and for every one after the last day of BS 2100; it
\* returns no value for them.
OutOfRangeOutsideSpan ==
    (pc = "called" /\ op = "englishToNepali"
        /\ arg.valid /\ LocalDay(zone, arg.time) \notin SupportedDays)
    => res = OutOfRange

\* C5. isValidNepaliDate never fails and is true exactly for the dates of
\* the table: year in 2000..2100, month in 1..12, day from 1 to the table
\* length of the month.
ValidatorExact ==
    (op = "isValidNepaliDate") =>
        /\ res = Return(InTable(arg))
        /\ (arg = BS(2000, 1, 30) => res.val = TRUE)
        /\ (arg \in {BS(2000, 1, 31), BS(1999, 1, 1), BS(2101, 1, 1)}
                => res.val = FALSE)

\* One day past the end of a month is refused.
ValidatorExactWitness ==
    op = "isValidNepaliDate" /\ arg = BS(2000, 1, 31) /\ res = Return(FALSE)

\* C6. nepaliToEnglish validates first: an invalid BS date fails with
\* INVALID_NEPALI_DATE, whatever its year, and a valid one yields a Date.
ValidatesFirst ==
    (op = "nepaliToEnglish") =>
        IF isValidNepaliDate(arg) THEN res.ok ELSE res = InvalidNepaliDate

\* A date of a year without table entry is refused as invalid.
ValidatesFirstWitness ==
    /\ op = "nepaliToEnglish" /\ arg = BS(2101, 1, 1)
    /\ res = InvalidNepaliDate

DayLookupExact ==
    (op = "getDaysInNepaliMonth") =>
        /\ IF arg.year \in 2000..2100 /\ arg.month \in 1..12
           THEN res = Return(TableLength(arg.year, arg.month))
           ELSE res = InvalidNepaliDate
        /\ (arg = [year |-> 2081, month |-> 8] => res = Return(30))

\* The lookup of the last month of the last year.
DayLookupExactWitness ==
    /\ op = "getDaysInNepaliMonth" /\ arg = [year |-> 2100, month |-> 12]
    /\ res = Return(30)

\* C9. Month 8 is named Kartik: the long format of BS 2081/8/15 is
\* "15 Kartik 2081" and the calendar showing month 8 of 2081 is headed
\* "Kartik 2081".
MonthEightIsKartik ==
    (op = "formatNepaliDate"
        /\ arg = [date |-> BS(2081, 8, 15), format |-> "long"])
    => /\ res = Return("15 Kartik 2081")
       /\ CalendarHeading(arg.date) = "Kartik 2081"

TwoDigits(n) == Digit(n \div 10) \o Digit(n % 10)

\* C10. The short format of a valid BS date is the year, "/", the month as
\* two digits, "/", the day as two digits; it is the format used when none
\* is given.
ShortFormat ==
    (op = "formatNepaliDate" /\ arg.format # "long" /\ InTable(arg.date)) =>
        /\ res = Return(TwoDigits(arg.date.year \div 100)
                        \o TwoDigits(arg.date.year % 100)
                        \o "/" \o TwoDigits(arg.date.month)
                        \o "/" \o TwoDigits(arg.date.day))
        /\ (arg.date = BS(2081, 8, 15) => res.val = "2081/08/15")
        /\ (arg.date = BS(2081, 5, 10) => res.val = "2081/05/10")

\* A one-digit month and day formatted with no format given.
ShortFormatWitness ==
    /\ op = "formatNepaliDate"
    /\ arg = [date |-> BS(2081, 1, 1), format |-> "undefined"]
    /\ res = Return("2081/01/01")

\* C11. getCurrentNepaliDate never fails: for a present instant that
\* englishToNepali converts it returns that conversion, for one before the
\* reference midnight or beyond BS 2100 it returns the fallback 2081/1/1,
\* and what it returns is always a valid BS date.
FallbackNeverThrows ==
    (op = "getCurrentNepaliDate") =>
        /\ res.ok
        /\ InTable(res.val)
        /\ IF arg.time < 0 \/ arg.time >= TotalDays * MinutesPerDay
           THEN res = Return(BS(2081, 1, 1))
           ELSE res = englishToNepali(arg)

\* A present instant beyond BS 2100 resolved to the fallback.
FallbackNeverThrowsWitness ==
    /\ op = "getCurrentNepaliDate"
    /\ arg.time >= TotalDays * MinutesPerDay
    /\ res = Return(BS(2081, 1, 1))

\* C12. englishToNepali of a Date that holds no instant fails with
\* INVALID_ENGLISH_DATE and returns no value.
MalformedInputRefused ==
    (op = "englishToNepali" /\ ~arg.valid)
    => res = createDateConversionError("INVALID_ENGLISH_DATE")

(* --------------------------- claims on the picker --------------------- *)

\* A date as one number that orders the dates.
DateKey(d) == d.year * 10000 + d.month * 100 + d.day

\* Neither before minDate nor after maxDate.
WithinBounds(d) ==
    /\ Truthy(minDate) => DateKey(d) >= DateKey(minDate)
    /\ Truthy(maxDate) => DateKey(d) <= DateKey(maxDate)

\* The last event asked for date d: a click on its day, or Enter or Space
\* while it had the focus.
Asked(d) ==
    /\ event.date = d
    /\ \/ event.type = "click day"
       \/ event.type = "calendar key" /\ event.key \in {"Enter", " "}

\* C13. With minDate or maxDate set, no click on a day and no key pressed
\* in the calendar selects a date before minDate or after maxDate:
\* onValueChange is not called with one and the selection does not become
\* one; minDate and maxDate themselves are selected when asked for.
NeverSelectsOutsideBounds ==
    (event.type \in {"click day", "calendar key"}) =>
        /\ \A i \in DOMAIN calls : WithinBounds(calls[i])
        /\ Truthy(selectedDate) => WithinBounds(selectedDate)
        /\ \A b \in {minDate, maxDate} :
              (Truthy(b) /\ WithinBounds(b) /\ Asked(b))
              => (selectedDate = b /\ calls = <<b>>)

\* Enter pressed while the focus is on a date past maxDate, which an arrow
\* key has moved it to: nothing is selected and the popover stays open.
NeverSelectsOutsideBoundsWitness ==
    /\ event.type = "calendar key" /\ event.key = "Enter"
    /\ Truthy(maxDate)
    /\ Truthy(event.date) /\ ~WithinBounds(event.date)
    /\ focusedDate = event.date
    /\ calls = << >>
    /\ selectedDate = Null
    /\ isOpen

\* C14. Selecting a valid, enabled date d in the open calendar sets the
\* selection to d, calls onValueChange once, with d, and closes the popover.
SelectSetsCallsCloses ==
    \A d \in {event.date} :
        (Truthy(d) /\ Asked(d) /\ event.wasOpen /\ InTable(d) /\ WithinBounds(d))
        => (selectedDate = d /\ calls = <<d>> /\ ~isOpen)

\* A click on a day of the open calendar.
SelectSetsCallsClosesWitness ==
    /\ event.type = "click day"
    /\ event.wasOpen
    /\ selectedDate = event.date
    /\ calls = <<event.date>>
    /\ ~isOpen

\* C15. A controlled picker displays its value prop, whatever was selected
\* or cleared.
ControlledShowsValue ==
    (value # Undefined) => displayValue(selectedDate) = displayValue(value)

\* The month before and the month after month m of year y.
MonthBefore(y, m) == IF m = 1 THEN <<y - 1, 12>> ELSE <<y, m - 1>>
MonthAfter(y, m) == IF m = 12 THEN <<y + 1, 1>> ELSE <<y, m + 1>>

\* C16. The previous-month button moves the calendar from (y, m) to the
\* month before, the next-month button to the month after, across the
\* ends of the year; away from the ends of the range, next followed by
\* previous comes back to (y, m).
NavigationAdjacent ==
    /\ (event.type = "navigate") =>
            <<currentMonth.year, currentMonth.month>>
                = IF event.key = "prev"
                  THEN MonthBefore(event.date.year, event.date.month)
                  ELSE MonthAfter(event.date.year, event.date.month)
    /\ (isOpen /\ ~NextDisabled(currentMonth)) =>
            LET back == navigateMonth(navigateMonth(currentMonth, "next"), "prev")
            IN  /\ back.year = currentMonth.year
                /\ back.month = currentMonth.month

\* The previous-month button pressed on the first month of a year.
NavigationAdjacentWitness ==
    /\ event.type = "navigate" /\ event.key = "prev"
    /\ event.date.month = 1
    /\ currentMonth = BS(event.date.year - 1, 12, 1)

\* C17. The displayed month stays within BS 2000/1 .. 2100/12: the
\* previous-month button is disabled on 2000/1 and only there, the
\* next-month button on 2100/12 and only there, and a navigation beyond
\* either end leaves the month as it is.
MonthStaysInRange ==
    isOpen =>
        /\ currentMonth.year \in 2000..2100
        /\ currentMonth.month \in 1..12
        /\ PrevDisabled(currentMonth)
             <=> (currentMonth.year = 2000 /\ currentMonth.month = 1)
        /\ NextDisabled(currentMonth)
             <=> (currentMonth.year = 2100 /\ currentMonth.month = 12)
        /\ PrevDisabled(currentMonth)
             => navigateMonth(currentMonth, "prev") = currentMonth
        /\ NextDisabled(currentMonth)
             => navigateMonth(currentMonth, "next") = currentMonth

\* The calendar navigated back to the first month of the range.
MonthStaysInRangeWitness ==
    /\ event.type = "navigate" /\ event.key = "prev"
    /\ currentMonth = BS(2000, 1, 1)
    /\ PrevDisabled(currentMonth)

\* C18. The grid of the open calendar has 42 cells, whatever month is
\* displayed.
GridHas42Cells ==
    isOpen => Len(calendarData(zone, currentMonth).days) = 42

\* C19. On the trigger, Enter and Space toggle the popover, Escape leaves it
\* closed, ArrowDown leaves it open, and no other key changes it.
TriggerKeysToggle ==
    (event.type = "trigger key") =>
        isOpen = CASE event.key \in {"Enter", " "} -> ~event.wasOpen
                   [] event.key = "Escape"          -> FALSE
                   [] event.key = "ArrowDown"       -> TRUE
                   [] OTHER                         -> event.wasOpen

\* Escape pressed on the trigger of an open popover.
TriggerKeysToggleWitness ==
    /\ event.type = "trigger key" /\ event.key = "Escape"
    /\ event.wasOpen /\ ~isOpen

\* C20. A click on the clear control sets the selection to null, calls
\* onValueChange with null and leaves the popover as open or closed as it
\* was.
ClearLeavesPopover ==
    (event.type = "clear") =>
        /\ selectedDate = Null
        /\ calls = <<Null>>
        /\ isOpen = event.wasOpen

\* A date cleared while the popover is open.
ClearLeavesPopoverWitness ==
    /\ event.type = "clear"
    /\ event.wasOpen /\ isOpen
    /\ selectedDate = Null

\* The keys of the calendar that move the focus.
MoveKeys == {"ArrowLeft", "ArrowRight", "ArrowUp", "ArrowDown", "Home", "End"}

\* The day the focus is on after key is pressed with the focus on day d of
\* a month of len days.
DayAfterKey(key, d, len) ==
    CASE key = "Home"       -> 1
      [] key = "End"        -> len
      [] key = "ArrowLeft"  -> IF d - 1 < 1 THEN 1 ELSE d - 1
      [] key = "ArrowRight" -> IF d + 1 > len THEN len ELSE d + 1
      [] key = "ArrowUp"    -> IF d - 7 < 1 THEN 1 ELSE d - 7
      [] key = "ArrowDown"  -> IF d + 7 > len THEN len ELSE d + 7

\* C21. A key that moves the focus, pressed with the focus on date f,
\* leaves the focus in the year and month of f, on day 1 for Home, on the
\* last day for End, one day away for ArrowLeft and ArrowRight and seven
\* days away for ArrowUp and ArrowDown, clamped to the days of the month;
\* the focused date is a date of the table.
FocusMovesWithinMonth ==
    (event.type = "calendar key" /\ event.key \in MoveKeys /\ Truthy(event.date))
    => /\ focusedDate =
            [event.date EXCEPT !.day =
                DayAfterKey(event.key, event.date.day,
                            TableLength(event.date.year, event.date.month))]
       /\ InTable(focusedDate)
       /\ isOpen

\* ArrowDown pressed less than a week before the end of the month: the
\* focus is on the last day.
FocusMovesWithinMonthWitness ==
    /\ event.type = "calendar key" /\ event.key = "ArrowDown"
    /\ Truthy(event.date)
    /\ event.date.day < TableLength(event.date.year, event.date.month)
    /\ event.date.day + 7 > TableLength(event.date.year, event.date.month)
    /\ focusedDate.day = TableLength(event.date.year, event.date.month)
    /\ focusedDate.month = event.date.month

\* C22. PageUp pressed in the calendar displays the month before and
\* PageDown the month after, where the table has one.
PageKeysChangeMonth ==
    [][(/\ event'.type = "calendar key"
        /\ event'.key \in {"PageUp", "PageDown"}
        /\ ~(event'.key = "PageUp" /\ PrevDisabled(currentMonth))
        /\ ~(event'.key = "PageDown" /\ NextDisabled(currentMonth)))
       => <<currentMonth'.year, currentMonth'.month>> =
            IF event'.key = "PageUp"
            THEN MonthBefore(currentMonth.year, currentMonth.month)
            ELSE MonthAfter(currentMonth.year, currentMonth.month)]_vars

(* ------------------------ claims on the walk -------------------------- *)

\* C23. Whatever englishToNepali returns is a date of the table: year in
\* 2000..2100, month in 1..12 and day from 1 to the length of the month.
\* (A Date that holds no instant yields the day NaN, which is no day.)
ReturnedDateInTable ==
    (op = "englishToNepali" /\ res.ok) => (arg.valid /\ InTable(res.val))

\* The months the walk has advanced by.
Advances(w) == (w.year - 2000) * 12 + (w.month - 1)

\* What englishToNepali does after the loop has ended in state w.
WalkOutcome(w) ==
    IF w.at = "throw" THEN createDateConversionError("OUT_OF_RANGE")
    ELSE Return(BS(w.year, w.month, w.day))

\* C24. The walk of englishToNepali ends for every day offset >= 0, by
\* returning or by failing with OUT_OF_RANGE, after at most 1212 month
\* advances; each advance moves on by one month and strictly decreases the
\* remaining day count, and the pass that ends the loop changes nothing.
WalkTerminates ==
    /\ [](pc \in {"walk", "walked"} => Advances(res) <= 1212)
    /\ [](pc = "walked" => /\ res.at \in {"return", "throw"}
                           /\ WalkOutcome(res) = englishToNepali(arg))
    /\ [][pc = "walk" =>
            IF res'.at = "loop"
            THEN /\ res'.day < res.day
                 /\ Advances(res') = Advances(res) + 1
            ELSE /\ Advances(res') = Advances(res)
                 /\ res'.day = res.day]_vars
    /\ (pc = "walk" ~> pc = "walked")

\* A walk that has advanced through all 1212 months of the table and
\* failed at the lookup of year 2101.
WalkTerminatesWitness ==
    /\ pc = "walked"
    /\ res.at = "throw"
    /\ Advances(res) = 1212
    /\ arg.time >= TotalDays * MinutesPerDay

\* C25. Within the supported span, an instant at any time of a calendar
\* day converts to the BS date that the midnight of that day converts to.
TimeOfDayDiscarded ==
    LET midnight == LocalMidnight(zone, LocalDay(zone, arg.time))
    IN  (/\ pc = "walked"
         /\ arg.time >= 0 /\ arg.time < TotalDays * MinutesPerDay
         /\ midnight >= 0 /\ midnight < TotalDays * MinutesPerDay)
        => WalkOutcome(res) = englishToNepali(Date(midnight))

(* ------------------------ claims on the table ------------------------- *)

\* C26. The calendar table has an entry for each of the 101 years
\* 2000..2100 and for no other year, each entry has 12 month lengths, and
\* each length is 29, 30, 31 or 32; a lookup finds a year exactly when it
\* is one of 2000..2100.
TableShape ==
    /\ Len(CalendarRows) = 101
    /\ DOMAIN nepaliCalendarData = 2000..2100
    /\ \A y \in DOMAIN nepaliCalendarData :
          /\ Len(nepaliCalendarData[y]) = 12
          /\ \A m \in 1..12 : nepaliCalendarData[y][m] \in 29..32
    /\ (op = "getDaysInNepaliMonth" /\ arg.month \in 1..12)
       => /\ res.ok <=> arg.year \in 2000..2100
          /\ res.ok => res.val \in 29..32

\* The lookup of month 1 of the year after the last one of the table
\* finds no entry.
TableShapeWitness ==
    /\ op = "getDaysInNepaliMonth"
    /\ arg = [year |-> 2101, month |-> 1]
    /\ res = createDateConversionError("INVALID_NEPALI_DATE")

(* -------------------- claims on the selection handler ----------------- *)

\* C27. handleDateSelect called with a date that is no valid BS date
\* calls onError once, with an error of code INVALID_NEPALI_DATE, and
\* changes nothing else: the selection stays, onValueChange is not called
\* and the popover stays open on the same month.
InvalidSelectionReported ==
    [][(event'.type = "select" /\ ~InTable(event'.date))
       => /\ errors' = <<InvalidNepaliDate>>
          /\ calls' = << >>
          /\ selectedDate' = selectedDate
          /\ isOpen' /\ isOpen
          /\ currentMonth' = currentMonth
          /\ focusedDate' = focusedDate]_vars

\* Month 13 refused while a date is selected: the error is reported and
\* the selection is kept.
InvalidSelectionReportedWitness ==
    /\ event.type = "select"
    /\ event.date.month = 13
    /\ errors = <<InvalidNepaliDate>>
    /\ calls = << >>
    /\ Truthy(selectedDate)
    /\ isOpen

(* --------------------- claims on consecutive days --------------------- *)

\* The BS date after d in the table.
BSSuccessor(d) ==
    IF d.day < TableLength(d.year, d.month) THEN BS(d.year, d.month, d.day + 1)
    ELSE IF d.month < 12 THEN BS(d.year, d.month + 1, 1)
    ELSE BS(d.year + 1, 1, 1)

\* C28. For a Gregorian day g of the supported span whose next day is in
\* the span too, englishToNepali of the day after g is the BS date after
\* englishToNepali of g: no BS date is skipped or produced twice.
ConsecutiveDays ==
    (pc = "called" /\ op = "englishToNepali" /\ arg.valid)
    => LET g == LocalDay(zone, arg.time)
           next == englishToNepali(Date(LocalMidnight(zone, g + 1)))
       IN  (/\ arg.time = LocalMidnight(zone, g)
            /\ g \in SupportedDays /\ g + 1 \in SupportedDays)
           => /\ res.ok /\ next.ok
              /\ next.val = BSSuccessor(res.val)

(* ----------------------- claims on the calendar ----------------------- *)

\* C29. The calendar never shows its error state: mounted with a valid
\* selection, an invalid one or none, and whether getCurrentNepaliDate()
\* returns a date or throws, it starts on a valid BS date, and on every
\* month it is navigated to the day-count lookup and the conversion of the
\* first day succeed.
CalendarNeverFails ==
    isOpen =>
        /\ currentMonth.year \in 2000..2100
        /\ currentMonth.month \in 1..12
        /\ isValidNepaliDate(currentMonth)
        /\ getDaysInNepaliMonth(currentMonth.year, currentMonth.month).ok
        /\ nepaliToEnglish(zone, [currentMonth EXCEPT !.day = 1]).ok
        /\ ~calendarData(zone, currentMonth).error

\* A calendar mounted with a selection that is no BS date while
\* getCurrentNepaliDate() throws, navigated to the last month of the table.
CalendarNeverFailsWitness ==
    /\ isOpen
    /\ today = Thrown
    /\ Truthy(selectedDate) /\ ~isValidNepaliDate(selectedDate)
    /\ event.type = "navigate"
    /\ currentMonth = BS(2100, 12, 1)

\* C30. A focused date of the open calendar lies in the year and month
\* the calendar displays, so Enter and Space select a date of that month
\* only.
FocusInDisplayedMonth ==
    (isOpen /\ Truthy(focusedDate))
    => /\ focusedDate.year = currentMonth.year
       /\ focusedDate.month = currentMonth.month
====
